---------------------------- MODULE Spec2Model ----------------------------
(***************************************************************************)
(* Detective Quest: the room tree, the binary search tree of collected     *)
(* clues, the clue -> suspect hash table, the exploration loop and the     *)
(* final accusation, modelled from src/algoritmos_avancados.c, with the    *)
(* tree-only exploration loop of src/unnamed/part_000.                     *)
(*                                                                         *)
(* A C string is the tuple of its bytes (unsigned char, 0..255) up to and  *)
(* including the terminating NUL; the null pointer is the empty tuple.     *)
(***************************************************************************)
EXTENDS Integers, Sequences, FiniteSets, TLC

VARIABLES
    programa,     \* which of the two programs of the repository runs
    salas,        \* the Sala objects malloc gave out, by address (1, 2, ...)
    node,         \* explorarSalas: the current room (node / atual)
    op,           \* explorarSalas: the choice scanf stored (op / opcao)
    lidos,        \* explorarSalas: what the last scanf returned (0: none yet)
    pc,           \* where the program waits: "inicio", "escolha" (scanf of
                  \* explorarSalas), "acusacao" (fgets of main), "fim"; the
                  \* call-level specifications use "chamadas" and "julgado"
    motivo,       \* how explorarSalas returned ("" while it has not)
    saida,        \* what the last step printed
    raizPistas,   \* main: NoPista* raizPistas, the BST of collected clues
    ht,           \* main: HashTable* ht
    listagem,     \* the texts listarPistas printed in the final phase
    buf,          \* main: buf, the accused name once read and trimmed
    contador,     \* main: contador (-1 while no count was made)
    resultado,    \* the result main printed ("" while none)
    inseridas,    \* history: the texts passed to inserirPista so far
    antesPistas,  \* history: raizPistas before the last inserirPista call
    ultimaPista,  \* history: the text passed to the last inserirPista call
    postas,       \* history: the pairs (key, suspect last put for it)
    antesHt,      \* history: ht before the last inserirNaHash call
    ultimaChave,  \* history: the key passed to the last inserirNaHash call
    caminho,      \* history: the rooms explorarSalas entered, in order
    linha,        \* main: buf as fgets stored it (NULL while nothing was read)
    retorno,      \* main of algoritmos_avancados.c: the value it returned
                  \* (-1 while it has not returned)
    outras        \* tables of other bucket counts, and one that places keys
                  \* by another function, given the calls ht is given

varsJogo == <<programa, salas, node, op, lidos, motivo, saida, listagem,
              caminho>>

varsJuiz == <<buf, contador, resultado, linha, retorno>>

varsHistPistas == <<inseridas, antesPistas, ultimaPista>>

varsHistHash == <<postas, antesHt, ultimaChave, outras>>

vars == <<programa, salas, node, op, lidos, pc, motivo, saida, raizPistas, ht,
          listagem, buf, contador, resultado, inseridas, antesPistas,
          ultimaPista, postas, antesHt, ultimaChave, caminho, linha, retorno,
          outras>>

(***************************************************************************)
(* String literals of the sources.                                         *)
(***************************************************************************)
\* room names
HallDeEntrada == <<72, 97, 108, 108, 32, 100, 101, 32, 69, 110, 116, 114, 97, 100, 97, 0>>  \* "Hall de Entrada"
SalaDeEstar == <<83, 97, 108, 97, 32, 100, 101, 32, 69, 115, 116, 97, 114, 0>>  \* "Sala de Estar"
Cozinha == <<67, 111, 122, 105, 110, 104, 97, 0>>  \* "Cozinha"
Biblioteca == <<66, 105, 98, 108, 105, 111, 116, 101, 99, 97, 0>>  \* "Biblioteca"
JardimDeInverno == <<74, 97, 114, 100, 105, 109, 32, 100, 101, 32, 73, 110, 118, 101, 114, 110, 111, 0>>  \* "Jardim de Inverno"
Despensa == <<68, 101, 115, 112, 101, 110, 115, 97, 0>>  \* "Despensa"
Porao == <<80, 111, 114, 195, 163, 111, 0>>  \* "Porão"
QuartoPrincipal == <<81, 117, 97, 114, 116, 111, 32, 80, 114, 105, 110, 99, 105, 112, 97, 108, 0>>  \* "Quarto Principal"
Escritorio == <<69, 115, 99, 114, 105, 116, 195, 179, 114, 105, 111, 0>>  \* "Escritório"
\* clue texts
PegadaMolhada == <<112, 101, 103, 97, 100, 97, 32, 109, 111, 108, 104, 97, 100, 97, 0>>  \* "pegada molhada"
FioDeCabelo == <<102, 105, 111, 32, 100, 101, 32, 99, 97, 98, 101, 108, 111, 0>>  \* "fio de cabelo"
BilheteRasgado == <<98, 105, 108, 104, 101, 116, 101, 32, 114, 97, 115, 103, 97, 100, 111, 0>>  \* "bilhete rasgado"
MarcaDeLuva == <<109, 97, 114, 99, 97, 32, 100, 101, 32, 108, 117, 118, 97, 0>>  \* "marca de luva"
CheiroDeQueimado == <<99, 104, 101, 105, 114, 111, 32, 100, 101, 32, 113, 117, 101, 105, 109, 97, 100, 111, 0>>  \* "cheiro de queimado"
ChaveEstranha == <<99, 104, 97, 118, 101, 32, 101, 115, 116, 114, 97, 110, 104, 97, 0>>  \* "chave estranha"
ManchaDeTinta == <<109, 97, 110, 99, 104, 97, 32, 100, 101, 32, 116, 105, 110, 116, 97, 0>>  \* "mancha de tinta"
AnelRiscado == <<97, 110, 101, 108, 32, 114, 105, 115, 99, 97, 100, 111, 0>>  \* "anel riscado"
NotaDeDivida == <<110, 111, 116, 97, 32, 100, 101, 32, 100, 195, 173, 118, 105, 100, 97, 0>>  \* "nota de dívida"
\* suspect names
SrAvelar == <<83, 114, 46, 32, 65, 118, 101, 108, 97, 114, 0>>  \* "Sr. Avelar"
SraBeatriz == <<83, 114, 97, 46, 32, 66, 101, 97, 116, 114, 105, 122, 0>>  \* "Sra. Beatriz"
SrtaClara == <<83, 114, 116, 97, 46, 32, 67, 108, 97, 114, 97, 0>>  \* "Srta. Clara"
SrDourado == <<83, 114, 46, 32, 68, 111, 117, 114, 97, 100, 111, 0>>  \* "Sr. Dourado"

\* texts of the call-level specifications that are no literal of the sources
Go == <<103, 111, 0>>  \* "go": same bucket as "pegada molhada" modulo 101
Fio == <<102, 105, 111, 0>>  \* "fio": a proper prefix of "fio de cabelo"
Vazia == <<0>>  \* "": the empty string
SrAvelarMinusculo == <<115, 114, 46, 32, 97, 118, 101, 108, 97, 114, 0>>  \* "sr. avelar"

NULL == <<>>

(***************************************************************************)
(* <string.h> as the sources use it.                                       *)
(***************************************************************************)
RECURSIVE strlen_from(_, _)
strlen_from(s, i) == IF s[i] = 0 THEN i - 1 ELSE strlen_from(s, i + 1)

strlen(s) == strlen_from(s, 1)

RECURSIVE strcmp_from(_, _, _)
strcmp_from(a, b, i) ==
    IF a[i] # b[i] THEN a[i] - b[i]
    ELSE IF a[i] = 0 THEN 0
    ELSE strcmp_from(a, b, i + 1)

\* the sign of the result is what the C standard fixes: the difference of the
\* first differing bytes, compared as unsigned char
strcmp(a, b) == strcmp_from(a, b, 1)

strdup_local(s) == IF s = NULL THEN NULL ELSE SubSeq(s, 1, strlen(s) + 1)

(***************************************************************************)
(* The BST of collected clues.  A NoPista is a record, a null link NULL.   *)
(***************************************************************************)
NoPista(pista) == [pista |-> strdup_local(pista), esq |-> NULL, dir |-> NULL]

\* inserirPista with the descent forgotten: the new node replaces the child
inserirPista_SemDescida(raiz, pista) ==
    IF pista = NULL THEN raiz
    ELSE IF raiz = NULL THEN NoPista(pista)
    ELSE LET cmp == strcmp(pista, raiz.pista) IN
         IF cmp = 0 THEN raiz
         ELSE IF cmp < 0
              THEN [raiz EXCEPT !.esq = NoPista(pista)]
              ELSE [raiz EXCEPT !.dir = NoPista(pista)]

\* inserirPista with the arguments of strcmp swapped
RECURSIVE inserirPista_Invertida(_, _)
inserirPista_Invertida(raiz, pista) ==
    IF pista = NULL THEN raiz
    ELSE IF raiz = NULL THEN NoPista(pista)
    ELSE LET cmp == strcmp(raiz.pista, pista) IN
         IF cmp = 0 THEN raiz
         ELSE IF cmp < 0
              THEN [raiz EXCEPT !.esq = inserirPista_Invertida(raiz.esq, pista)]
              ELSE [raiz EXCEPT !.dir = inserirPista_Invertida(raiz.dir, pista)]

\* inserirPista without the cmp == 0 case: an equal text goes right
RECURSIVE inserirPista_ComDuplicata(_, _)
inserirPista_ComDuplicata(raiz, pista) ==
    IF pista = NULL THEN raiz
    ELSE IF raiz = NULL THEN NoPista(pista)
    ELSE LET cmp == strcmp(pista, raiz.pista) IN
         IF cmp < 0
         THEN [raiz EXCEPT !.esq = inserirPista_ComDuplicata(raiz.esq, pista)]
         ELSE [raiz EXCEPT !.dir = inserirPista_ComDuplicata(raiz.dir, pista)]

RECURSIVE inserirPista(_, _)
inserirPista(raiz, pista) ==
    IF pista = NULL THEN raiz
    ELSE IF raiz = NULL THEN NoPista(pista)
    ELSE LET cmp == strcmp(pista, raiz.pista) IN
         IF cmp = 0 THEN raiz
         ELSE IF cmp < 0
              THEN [raiz EXCEPT !.esq = inserirPista(raiz.esq, pista)]
              ELSE [raiz EXCEPT !.dir = inserirPista(raiz.dir, pista)]

RECURSIVE buscaPista(_, _)
buscaPista(raiz, pista) ==
    IF raiz = NULL \/ pista = NULL THEN 0
    ELSE LET cmp == strcmp(pista, raiz.pista) IN
         IF cmp = 0 THEN 1
         ELSE IF cmp < 0 THEN buscaPista(raiz.esq, pista)
         ELSE buscaPista(raiz.dir, pista)

\* listarPistas printing the node before its left subtree
RECURSIVE listarPistas_PreOrdem(_)
listarPistas_PreOrdem(raiz) ==
    IF raiz = NULL THEN <<>>
    ELSE <<raiz.pista>> \o listarPistas_PreOrdem(raiz.esq)
                        \o listarPistas_PreOrdem(raiz.dir)

\* the texts listarPistas prints, in the order it prints them
RECURSIVE listarPistas(_)
listarPistas(raiz) ==
    IF raiz = NULL THEN <<>>
    ELSE listarPistas(raiz.esq) \o <<raiz.pista>> \o listarPistas(raiz.dir)

(***************************************************************************)
(* The hash table pista -> suspeito.  An unsigned long is ULONG_BITS bits  *)
(* wide (64 under the LP64 data model); its value is kept as a tuple of    *)
(* 16-bit limbs, least significant first, so that djb2 wraps as in C.      *)
(***************************************************************************)
ULONG_BITS == 64

Base == 2 ^ 16

NLimbs == ULONG_BITS \div 16

RECURSIVE ULongFrom(_, _)
ULongFrom(n, i) ==
    IF i > NLimbs THEN <<>> ELSE <<n % Base>> \o ULongFrom(n \div Base, i + 1)

\* the unsigned long holding a non-negative int
ULong(n) == ULongFrom(n, 1)

RECURSIVE Shl5From(_, _, _)
Shl5From(h, i, alto) ==
    IF i > NLimbs THEN <<>>
    ELSE <<(h[i] * 32 + alto) % Base>> \o Shl5From(h, i + 1, h[i] \div 2 ^ 11)

\* hash << 5: the bits shifted out of the top limb are lost
Shl5(h) == Shl5From(h, 1, 0)

RECURSIVE AddFrom(_, _, _, _)
AddFrom(a, b, i, vaiUm) ==
    IF i > NLimbs THEN <<>>
    ELSE LET t == a[i] + b[i] + vaiUm IN
         <<t % Base>> \o AddFrom(a, b, i + 1, t \div Base)

\* a + b, modulo 2 ^ ULONG_BITS
Add(a, b) == AddFrom(a, b, 1, 0)

RECURSIVE ModFrom(_, _, _)
ModFrom(h, m, i) ==
    IF i > NLimbs THEN 0 ELSE (ModFrom(h, m, i + 1) * Base + h[i]) % m

\* h % m, for a size m below 2 ^ 15
Mod(h, m) == ModFrom(h, m, 1)

\* the loop of hash_djb2 from byte i on.  The hash of each iteration is
\* computed (its length taken) before the next one starts.
RECURSIVE djb2_loop(_, _, _)
djb2_loop(str, i, hash) ==
    IF str[i] = 0 THEN hash
    ELSE LET prox == Add(Add(Shl5(hash), hash), ULong(str[i])) IN
         IF Len(prox) = NLimbs THEN djb2_loop(str, i + 1, prox) ELSE prox

hash_djb2(str) == djb2_loop(str, 1, ULong(5381))

HashEntry(pista, suspeito) ==
    [pista |-> strdup_local(pista), suspeito |-> strdup_local(suspeito)]

\* a bucket is the chain of its entries, the head first; calloc leaves it empty
criarHash(size) == [size |-> size, buckets |-> [i \in 0..(size - 1) |-> <<>>]]

\* the positions of a chain whose entry has the key pista
Achados(cadeia, pista) ==
    {i \in 1..Len(cadeia) : strcmp(cadeia[i].pista, pista) = 0}

Primeiro(S) == CHOOSE i \in S : \A j \in S : i <= j

\* inserirNaHash that never looks for the key: always a new entry at the head
inserirNaHash_SemProcura(tabela, pista, suspeito) ==
    IF tabela = NULL \/ pista = NULL \/ suspeito = NULL THEN tabela
    ELSE LET h == Mod(hash_djb2(pista), tabela.size) IN
         [tabela EXCEPT !.buckets[h] = <<HashEntry(pista, suspeito)>> \o @]

\* inserirNaHash that overwrites the head of a chain without comparing keys
inserirNaHash_SobrescreveCabeca(tabela, pista, suspeito) ==
    IF tabela = NULL \/ pista = NULL \/ suspeito = NULL THEN tabela
    ELSE LET h == Mod(hash_djb2(pista), tabela.size) IN
         IF tabela.buckets[h] # <<>>
         THEN [tabela EXCEPT !.buckets[h][1].suspeito = strdup_local(suspeito)]
         ELSE [tabela EXCEPT !.buckets[h] = <<HashEntry(pista, suspeito)>> \o @]

inserirNaHash(tabela, pista, suspeito) ==
    IF tabela = NULL \/ pista = NULL \/ suspeito = NULL THEN tabela
    ELSE LET h == Mod(hash_djb2(pista), tabela.size)
             cur == Achados(tabela.buckets[h], pista)
         IN  IF cur # {}
             THEN [tabela EXCEPT !.buckets[h][Primeiro(cur)].suspeito =
                                 strdup_local(suspeito)]
             ELSE [tabela EXCEPT !.buckets[h] = <<HashEntry(pista, suspeito)>> \o @]

\* encontrarSuspeito that returns the head of the bucket without comparing keys
encontrarSuspeito_SemComparar(tabela, pista) ==
    IF tabela = NULL \/ pista = NULL THEN NULL
    ELSE LET cadeia == tabela.buckets[Mod(hash_djb2(pista), tabela.size)] IN
         IF cadeia # <<>> THEN cadeia[1].suspeito ELSE NULL

encontrarSuspeito(tabela, pista) ==
    IF tabela = NULL \/ pista = NULL THEN NULL
    ELSE LET cadeia == tabela.buckets[Mod(hash_djb2(pista), tabela.size)]
             cur == Achados(cadeia, pista)
         IN  IF cur # {} THEN cadeia[Primeiro(cur)].suspeito ELSE NULL

(***************************************************************************)
(* The accusation.                                                         *)
(***************************************************************************)
\* auxiliarContagem that forgets the right subtree
RECURSIVE auxiliarContagem_SemDireita(_, _, _, _)
auxiliarContagem_SemDireita(raiz, tabela, acusado, cont) ==
    IF raiz = NULL THEN cont
    ELSE LET c1 == auxiliarContagem_SemDireita(raiz.esq, tabela, acusado, cont)
             s == encontrarSuspeito(tabela, raiz.pista)
         IN  IF s # NULL /\ strcmp(s, acusado) = 0 THEN c1 + 1 ELSE c1

\* auxiliarContagem that sets *contador to 1 instead of incrementing it
RECURSIVE auxiliarContagem_SemIncremento(_, _, _, _)
auxiliarContagem_SemIncremento(raiz, tabela, acusado, cont) ==
    IF raiz = NULL THEN cont
    ELSE LET c1 == auxiliarContagem_SemIncremento(raiz.esq, tabela, acusado, cont)
             s == encontrarSuspeito(tabela, raiz.pista)
             c2 == IF s # NULL /\ strcmp(s, acusado) = 0 THEN 1 ELSE c1
         IN  auxiliarContagem_SemIncremento(raiz.dir, tabela, acusado, c2)

\* the value of *contador when auxiliarContagem returns
RECURSIVE auxiliarContagem(_, _, _, _)
auxiliarContagem(raiz, tabela, acusado, cont) ==
    IF raiz = NULL THEN cont
    ELSE LET c1 == auxiliarContagem(raiz.esq, tabela, acusado, cont)
             s == encontrarSuspeito(tabela, raiz.pista)
             c2 == IF s # NULL /\ strcmp(s, acusado) = 0 THEN c1 + 1 ELSE c1
         IN  auxiliarContagem(raiz.dir, tabela, acusado, c2)

verificarSuspeitoFinal(raiz, tabela, acusado) ==
    IF acusado = NULL THEN 0
    ELSE IF raiz = NULL THEN 0
    ELSE auxiliarContagem(raiz, tabela, acusado, 0)

\* main: the result printed for a count
Resultado(cont) ==
    IF cont >= 2 THEN "ACUSACAO SUSTENTADA" ELSE "ACUSACAO INSUFICIENTE"

(***************************************************************************)
(* The room tree.  malloc gives out the addresses 1, 2, ... in order; the  *)
(* null Sala pointer is SalaNula.                                          *)
(***************************************************************************)
SalaNula == 0

\* the memory after criarSala(nome); the new room's address is its length
criarSala(mem, nome) ==
    Append(mem, [nome |-> strdup_local(nome), esq |-> SalaNula, dir |-> SalaNula])

LigarEsq(mem, pai, filho) == [mem EXCEPT ![pai].esq = filho]

LigarDir(mem, pai, filho) == [mem EXCEPT ![pai].dir = filho]

\* a map in which the kitchen's left link points to the library, a room
\* that is already the left child of the sitting room
MontarMapa_SalaCompartilhada ==
    LET m1 == criarSala(<<>>, HallDeEntrada)
        m2 == LigarEsq(criarSala(m1, SalaDeEstar), 1, 2)
        m3 == LigarDir(criarSala(m2, Cozinha), 1, 3)
        m4 == LigarEsq(criarSala(m3, Biblioteca), m3[1].esq, 4)
        m5 == LigarDir(criarSala(m4, JardimDeInverno), m4[1].esq, 5)
        m6 == LigarEsq(criarSala(m5, Despensa), m5[1].dir, 4)
        m7 == LigarDir(criarSala(m6, Porao), m6[1].dir, 7)
        m8 == LigarEsq(criarSala(m7, QuartoPrincipal), m7[m7[1].esq].esq, 8)
        m9 == LigarEsq(criarSala(m8, Escritorio), 6, 9)
    IN  m9

\* main of algoritmos_avancados.c: nine rooms, hall at address 1
MontarMapa ==
    LET m1 == criarSala(<<>>, HallDeEntrada)
        m2 == LigarEsq(criarSala(m1, SalaDeEstar), 1, 2)
        m3 == LigarDir(criarSala(m2, Cozinha), 1, 3)
        m4 == LigarEsq(criarSala(m3, Biblioteca), m3[1].esq, 4)
        m5 == LigarDir(criarSala(m4, JardimDeInverno), m4[1].esq, 5)
        m6 == LigarEsq(criarSala(m5, Despensa), m5[1].dir, 6)
        m7 == LigarDir(criarSala(m6, Porao), m6[1].dir, 7)
        m8 == LigarEsq(criarSala(m7, QuartoPrincipal), m7[m7[1].esq].esq, 8)
        m9 == LigarEsq(criarSala(m8, Escritorio), m8[m8[1].dir].esq, 9)
    IN  m9

\* main of part_000: seven rooms, hall at address 1
MontarMapaNivel1 ==
    LET m1 == criarSala(<<>>, HallDeEntrada)
        m2 == LigarEsq(criarSala(m1, SalaDeEstar), 1, 2)
        m3 == LigarDir(criarSala(m2, Cozinha), 1, 3)
        m4 == LigarEsq(criarSala(m3, Biblioteca), m3[1].esq, 4)
        m5 == LigarDir(criarSala(m4, JardimDeInverno), m4[1].esq, 5)
        m6 == LigarEsq(criarSala(m5, Despensa), m5[1].dir, 6)
        m7 == LigarDir(criarSala(m6, Porao), m6[1].dir, 7)
    IN  m7

\* main's table with "cheiro de queimado" given to "Sra. Beatriz"
PopularHash_CheiroDeBeatriz ==
    LET h0 == criarHash(101)
        h1 == inserirNaHash(h0, PegadaMolhada, SrAvelar)
        h2 == inserirNaHash(h1, FioDeCabelo, SraBeatriz)
        h3 == inserirNaHash(h2, MarcaDeLuva, SrAvelar)
        h4 == inserirNaHash(h3, BilheteRasgado, SrtaClara)
        h5 == inserirNaHash(h4, ChaveEstranha, SraBeatriz)
        h6 == inserirNaHash(h5, ManchaDeTinta, SrAvelar)
        h7 == inserirNaHash(h6, CheiroDeQueimado, SraBeatriz)
        h8 == inserirNaHash(h7, AnelRiscado, SrtaClara)
        h9 == inserirNaHash(h8, NotaDeDivida, SrDourado)
    IN  h9

\* main: the nine inserirNaHash calls on criarHash(101)
PopularHash ==
    LET h0 == criarHash(101)
        h1 == inserirNaHash(h0, PegadaMolhada, SrAvelar)
        h2 == inserirNaHash(h1, FioDeCabelo, SraBeatriz)
        h3 == inserirNaHash(h2, MarcaDeLuva, SrAvelar)
        h4 == inserirNaHash(h3, BilheteRasgado, SrtaClara)
        h5 == inserirNaHash(h4, ChaveEstranha, SraBeatriz)
        h6 == inserirNaHash(h5, ManchaDeTinta, SrAvelar)
        h7 == inserirNaHash(h6, CheiroDeQueimado, SrDourado)
        h8 == inserirNaHash(h7, AnelRiscado, SrtaClara)
        h9 == inserirNaHash(h8, NotaDeDivida, SrDourado)
    IN  h9

\* getPistaParaSala without the comparison with "Biblioteca"
getPistaParaSala_SemBiblioteca(nomeSala) ==
    IF nomeSala = NULL THEN NULL
    ELSE IF strcmp(nomeSala, HallDeEntrada) = 0 THEN PegadaMolhada
    ELSE IF strcmp(nomeSala, SalaDeEstar) = 0 THEN FioDeCabelo
    ELSE IF strcmp(nomeSala, JardimDeInverno) = 0 THEN MarcaDeLuva
    ELSE IF strcmp(nomeSala, Cozinha) = 0 THEN CheiroDeQueimado
    ELSE IF strcmp(nomeSala, Despensa) = 0 THEN ChaveEstranha
    ELSE IF strcmp(nomeSala, Porao) = 0 THEN ManchaDeTinta
    ELSE IF strcmp(nomeSala, QuartoPrincipal) = 0 THEN AnelRiscado
    ELSE IF strcmp(nomeSala, Escritorio) = 0 THEN NotaDeDivida
    ELSE NULL

\* getPistaParaSala without the comparison with the cellar's name
getPistaParaSala_SemPorao(nomeSala) ==
    IF nomeSala = NULL THEN NULL
    ELSE IF strcmp(nomeSala, HallDeEntrada) = 0 THEN PegadaMolhada
    ELSE IF strcmp(nomeSala, SalaDeEstar) = 0 THEN FioDeCabelo
    ELSE IF strcmp(nomeSala, Biblioteca) = 0 THEN BilheteRasgado
    ELSE IF strcmp(nomeSala, JardimDeInverno) = 0 THEN MarcaDeLuva
    ELSE IF strcmp(nomeSala, Cozinha) = 0 THEN CheiroDeQueimado
    ELSE IF strcmp(nomeSala, Despensa) = 0 THEN ChaveEstranha
    ELSE IF strcmp(nomeSala, QuartoPrincipal) = 0 THEN AnelRiscado
    ELSE IF strcmp(nomeSala, Escritorio) = 0 THEN NotaDeDivida
    ELSE NULL

getPistaParaSala(nomeSala) ==
    IF nomeSala = NULL THEN NULL
    ELSE IF strcmp(nomeSala, HallDeEntrada) = 0 THEN PegadaMolhada
    ELSE IF strcmp(nomeSala, SalaDeEstar) = 0 THEN FioDeCabelo
    ELSE IF strcmp(nomeSala, Biblioteca) = 0 THEN BilheteRasgado
    ELSE IF strcmp(nomeSala, JardimDeInverno) = 0 THEN MarcaDeLuva
    ELSE IF strcmp(nomeSala, Cozinha) = 0 THEN CheiroDeQueimado
    ELSE IF strcmp(nomeSala, Despensa) = 0 THEN ChaveEstranha
    ELSE IF strcmp(nomeSala, Porao) = 0 THEN ManchaDeTinta
    ELSE IF strcmp(nomeSala, QuartoPrincipal) = 0 THEN AnelRiscado
    ELSE IF strcmp(nomeSala, Escritorio) = 0 THEN NotaDeDivida
    ELSE NULL

(***************************************************************************)
(* explorarSalas of algoritmos_avancados.c.  The program waits only in     *)
(* scanf and fgets: a step runs from one read to the next.                 *)
(***************************************************************************)
Msg(m, a) == [msg |-> m, arg |-> a]

\* the choices read: e E d D s S, and two tokens the program does not know
Escolhas == {101, 69, 100, 68, 115, 83, 120, 49}

\* the leaf test with the left link forgotten
Folha_SoDireita(n) == salas[n].dir = SalaNula

\* the test of line 318 (part_000: line 40)
Folha(n) == salas[n].esq = SalaNula /\ salas[n].dir = SalaNula

\* the menu printed before the read
Menu(n) ==
    (IF salas[n].esq # SalaNula
       THEN <<Msg("e - Ir para a esquerda", salas[salas[n].esq].nome)>> ELSE <<>>)
    \o (IF salas[n].dir # SalaNula
       THEN <<Msg("d - Ir para a direita", salas[salas[n].dir].nome)>> ELSE <<>>)
    \o <<Msg("s - Sair da exploracao", NULL), Msg("Escolha: ", NULL)>>

\* the clue step without the buscaPista test of line 300
Coleta_SemBusca(n, raiz) ==
    LET pista == getPistaParaSala(salas[n].nome) IN
    IF pista # NULL
    THEN LET s == encontrarSuspeito(ht, pista) IN
         [raiz |-> inserirPista(raiz, pista),
          saida |-> <<Msg("Pista encontrada", pista),
                      IF s # NULL
                      THEN Msg("Esta pista aponta para o(a) suspeito(a)", s)
                      ELSE Msg("Nenhum suspeito associado a esta pista", NULL)>>]
    ELSE [raiz |-> raiz,
          saida |-> <<Msg("Nenhuma pista encontrada nesta sala", NULL)>>]

\* the clue step that reports a new clue without inserting it
Coleta_SemInserir(n, raiz) ==
    LET pista == getPistaParaSala(salas[n].nome) IN
    IF pista # NULL
    THEN IF buscaPista(raiz, pista) = 0
         THEN LET s == encontrarSuspeito(ht, pista) IN
              [raiz |-> raiz,
               saida |-> <<Msg("Pista encontrada", pista),
                           IF s # NULL
                           THEN Msg("Esta pista aponta para o(a) suspeito(a)", s)
                           ELSE Msg("Nenhum suspeito associado a esta pista", NULL)>>]
         ELSE [raiz |-> raiz,
               saida |-> <<Msg("Pista encontrada", pista),
                           Msg("Voce ja coletou esta pista antes", NULL)>>]
    ELSE [raiz |-> raiz,
          saida |-> <<Msg("Nenhuma pista encontrada nesta sala", NULL)>>]

\* the clue step of lines 297-315: the tree it leaves and what it prints
Coleta(n, raiz) ==
    LET pista == getPistaParaSala(salas[n].nome) IN
    IF pista # NULL
    THEN IF buscaPista(raiz, pista) = 0
         THEN LET s == encontrarSuspeito(ht, pista) IN
              [raiz |-> inserirPista(raiz, pista),
               saida |-> <<Msg("Pista encontrada", pista),
                           IF s # NULL
                           THEN Msg("Esta pista aponta para o(a) suspeito(a)", s)
                           ELSE Msg("Nenhum suspeito associado a esta pista", NULL)>>]
         ELSE [raiz |-> raiz,
               saida |-> <<Msg("Pista encontrada", pista),
                           Msg("Voce ja coletou esta pista antes", NULL)>>]
    ELSE [raiz |-> raiz,
          saida |-> <<Msg("Nenhuma pista encontrada nesta sala", NULL)>>]

\* the loop body of lines 294-327, up to the read
Visita(n, raiz) ==
    LET c == Coleta(n, raiz) IN
    [raiz |-> c.raiz,
     saida |-> <<Msg("Voce esta na sala", salas[n].nome)>> \o c.saida
               \o (IF Folha(n)
                   THEN <<Msg("Esta sala nao tem caminhos adicionais (no-folha)", NULL)>>
                   ELSE <<>>)
               \o <<Msg("Para onde deseja ir?", NULL)>> \o Menu(n)]

\* Despacho without the test of node->esq: 'e' follows a null link
Despacho_SemTesteEsq(n, c) ==
    IF c = 101 \/ c = 69
    THEN [node |-> salas[n].esq, retorna |-> FALSE, saida |-> <<>>]
    ELSE IF c = 100 \/ c = 68
    THEN IF salas[n].dir # SalaNula
         THEN [node |-> salas[n].dir, retorna |-> FALSE, saida |-> <<>>]
         ELSE [node |-> n, retorna |-> FALSE,
               saida |-> <<Msg("Nao existe caminho a direita", NULL)>>]
    ELSE IF c = 115 \/ c = 83
    THEN [node |-> n, retorna |-> TRUE,
          saida |-> <<Msg("Saindo da exploracao...", NULL)>>]
    ELSE [node |-> n, retorna |-> FALSE,
          saida |-> <<Msg("Opcao invalida. Tente novamente", NULL)>>]

\* Despacho that leaves exploration on a token it does not know
Despacho_InvalidaSai(n, c) ==
    IF c = 101 \/ c = 69
    THEN IF salas[n].esq # SalaNula
         THEN [node |-> salas[n].esq, retorna |-> FALSE, saida |-> <<>>]
         ELSE [node |-> n, retorna |-> FALSE,
               saida |-> <<Msg("Nao existe caminho a esquerda", NULL)>>]
    ELSE IF c = 100 \/ c = 68
    THEN IF salas[n].dir # SalaNula
         THEN [node |-> salas[n].dir, retorna |-> FALSE, saida |-> <<>>]
         ELSE [node |-> n, retorna |-> FALSE,
               saida |-> <<Msg("Nao existe caminho a direita", NULL)>>]
    ELSE [node |-> n, retorna |-> TRUE,
          saida |-> <<Msg("Saindo da exploracao...", NULL)>>]

\* Despacho that knows the exit choice only in lower case
Despacho_SemSMaiusculo(n, c) ==
    IF c = 101 \/ c = 69
    THEN IF salas[n].esq # SalaNula
         THEN [node |-> salas[n].esq, retorna |-> FALSE, saida |-> <<>>]
         ELSE [node |-> n, retorna |-> FALSE,
               saida |-> <<Msg("Nao existe caminho a esquerda", NULL)>>]
    ELSE IF c = 100 \/ c = 68
    THEN IF salas[n].dir # SalaNula
         THEN [node |-> salas[n].dir, retorna |-> FALSE, saida |-> <<>>]
         ELSE [node |-> n, retorna |-> FALSE,
               saida |-> <<Msg("Nao existe caminho a direita", NULL)>>]
    ELSE IF c = 115
    THEN [node |-> n, retorna |-> TRUE,
          saida |-> <<Msg("Saindo da exploracao...", NULL)>>]
    ELSE [node |-> n, retorna |-> FALSE,
          saida |-> <<Msg("Opcao invalida. Tente novamente", NULL)>>]

\* Despacho that goes back to the hall on a token it does not know
Despacho_VoltaAoHall(n, c) ==
    IF c = 101 \/ c = 69
    THEN IF salas[n].esq # SalaNula
         THEN [node |-> salas[n].esq, retorna |-> FALSE, saida |-> <<>>]
         ELSE [node |-> n, retorna |-> FALSE,
               saida |-> <<Msg("Nao existe caminho a esquerda", NULL)>>]
    ELSE IF c = 100 \/ c = 68
    THEN IF salas[n].dir # SalaNula
         THEN [node |-> salas[n].dir, retorna |-> FALSE, saida |-> <<>>]
         ELSE [node |-> n, retorna |-> FALSE,
               saida |-> <<Msg("Nao existe caminho a direita", NULL)>>]
    ELSE IF c = 115 \/ c = 83
    THEN [node |-> n, retorna |-> TRUE,
          saida |-> <<Msg("Saindo da exploracao...", NULL)>>]
    ELSE [node |-> 1, retorna |-> FALSE,
          saida |-> <<Msg("Opcao invalida. Tente novamente", NULL)>>]

\* lines 338-349: the room the choice c leads to from n, whether
\* explorarSalas returns, and what is printed
Despacho(n, c) ==
    IF c = 101 \/ c = 69
    THEN IF salas[n].esq # SalaNula
         THEN [node |-> salas[n].esq, retorna |-> FALSE, saida |-> <<>>]
         ELSE [node |-> n, retorna |-> FALSE,
               saida |-> <<Msg("Nao existe caminho a esquerda", NULL)>>]
    ELSE IF c = 100 \/ c = 68
    THEN IF salas[n].dir # SalaNula
         THEN [node |-> salas[n].dir, retorna |-> FALSE, saida |-> <<>>]
         ELSE [node |-> n, retorna |-> FALSE,
               saida |-> <<Msg("Nao existe caminho a direita", NULL)>>]
    ELSE IF c = 115 \/ c = 83
    THEN [node |-> n, retorna |-> TRUE,
          saida |-> <<Msg("Saindo da exploracao...", NULL)>>]
    ELSE [node |-> n, retorna |-> FALSE,
          saida |-> <<Msg("Opcao invalida. Tente novamente", NULL)>>]

\* explorarSalas returns to main, which lists the clues (lines 437-447) and
\* waits in fgets
Retornar(m, msgs) ==
    /\ motivo' = m
    /\ pc' = "acusacao"
    /\ caminho' = caminho
    /\ raizPistas' = raizPistas
    /\ listagem' = listarPistas(raizPistas)
    /\ saida' = msgs \o
           <<IF raizPistas = NULL
             THEN Msg("Voce nao coletou nenhuma pista", NULL)
             ELSE Msg("Pistas coletadas (ordem alfabetica)", NULL),
             Msg("Digite o nome do suspeito que deseja acusar", NULL)>>

\* the loop from its condition (line 293) with node = n to the next read
Explorar(n, msgs) ==
    /\ node' = n
    /\ IF n = SalaNula
       THEN Retornar("fim do laco", msgs)
       ELSE LET v == Visita(n, raizPistas) IN
            /\ caminho' = IF pc = "inicio" \/ n # node
                          THEN Append(caminho, n) ELSE caminho
            /\ raizPistas' = v.raiz
            /\ saida' = msgs \o v.saida
            /\ pc' = "escolha"
            /\ UNCHANGED <<motivo, listagem>>

\* main calls explorarSalas(hall, &raizPistas, ht)
Iniciar ==
    /\ programa = "algoritmos_avancados"
    /\ pc = "inicio"
    /\ Explorar(1, <<>>)
    /\ UNCHANGED <<programa, salas, op, lidos, ht>>
    /\ UNCHANGED <<varsJuiz, varsHistPistas, varsHistHash>>

\* scanf(" %c", &op) stored c: lines 336-349 and the loop again
Escolher(c) ==
    /\ programa = "algoritmos_avancados"
    /\ pc = "escolha"
    /\ lidos' = 1
    /\ op' = c
    /\ LET d == Despacho(node, c) IN
       IF d.retorna
       THEN node' = node /\ Retornar("saiu", d.saida)
       ELSE Explorar(d.node, d.saida)
    /\ UNCHANGED <<programa, salas, ht>>
    /\ UNCHANGED <<varsJuiz, varsHistPistas, varsHistHash>>

\* scanf did not return 1 (end of input, read error): lines 329-334
FalhaLeitura ==
    /\ programa = "algoritmos_avancados"
    /\ pc = "escolha"
    /\ lidos' = -1
    /\ node' = node
    /\ Retornar("entrada invalida",
                <<Msg("Entrada invalida. Saindo da exploracao", NULL)>>)
    /\ UNCHANGED <<programa, salas, op, ht>>
    /\ UNCHANGED <<varsJuiz, varsHistPistas, varsHistHash>>

(***************************************************************************)
(* The final phase of main.                                                *)
(***************************************************************************)
isspace(c) == c \in {32, 9, 10, 11, 12, 13}

\* the bytes of a C string before its NUL
Conteudo(s) == SubSeq(s, 1, strlen(s))

RECURSIVE SemFimDeLinha(_)
SemFimDeLinha(t) ==
    IF Len(t) > 0 /\ (t[Len(t)] = 10 \/ t[Len(t)] = 13)
    THEN SemFimDeLinha(SubSeq(t, 1, Len(t) - 1)) ELSE t

RECURSIVE SemEspacoInicial(_)
SemEspacoInicial(t) ==
    IF Len(t) > 0 /\ isspace(t[1]) THEN SemEspacoInicial(Tail(t)) ELSE t

RECURSIVE SemEspacoFinal(_)
SemEspacoFinal(t) ==
    IF Len(t) > 0 /\ isspace(t[Len(t)])
    THEN SemEspacoFinal(SubSeq(t, 1, Len(t) - 1)) ELSE t

\* trim_inplace that removes the end of line only
trim_inplace_SoFimDeLinha(s) == SemFimDeLinha(Conteudo(s)) \o <<0>>

\* the C string trim_inplace leaves in s
trim_inplace(s) ==
    SemEspacoFinal(SemEspacoInicial(SemFimDeLinha(Conteudo(s)))) \o <<0>>

\* the lines fgets may store
Linhas ==
    { SrAvelar,                                            \* no newline
      Conteudo(SrAvelar) \o <<10, 0>>,                     \* "Sr. Avelar\n"
      <<32, 9>> \o Conteudo(SrAvelar) \o <<32, 13, 10, 0>>, \* " \tSr. Avelar \r\n"
      Conteudo(SrAvelarMinusculo) \o <<10, 0>>,
      Conteudo(SraBeatriz) \o <<10, 0>>,
      Conteudo(SrtaClara) \o <<10, 0>>,
      Conteudo(SrDourado) \o <<10, 0>>,
      <<10, 0>>,                                           \* "\n"
      <<32, 32, 9, 13, 10, 0>> }                           \* "  \t\r\n"

\* fgets stored lida: lines 456-484
LerAcusacao(lida) ==
    /\ programa = "algoritmos_avancados"
    /\ pc = "acusacao"
    /\ linha' = lida
    /\ buf' = trim_inplace(lida)
    /\ IF strlen(buf') = 0
       THEN /\ saida' = <<Msg("Nenhum suspeito informado. Encerrando sem julgamento", NULL)>>
            /\ UNCHANGED <<contador, resultado>>
       ELSE /\ contador' = verificarSuspeitoFinal(raizPistas, ht, buf')
            /\ resultado' = Resultado(contador')
            /\ saida' = <<Msg("Voce acusou", buf'), Msg(resultado', buf'),
                          Msg("Obrigado por jogar Detective Quest", NULL)>>
    /\ pc' = "fim"
    /\ retorno' = 0
    /\ UNCHANGED <<programa, salas, node, op, lidos, motivo, listagem, caminho>>
    /\ UNCHANGED <<raizPistas, ht, varsHistPistas, varsHistHash>>

\* fgets returned NULL: lines 448-455
FalhaAcusacao ==
    /\ programa = "algoritmos_avancados"
    /\ pc = "acusacao"
    /\ saida' = <<Msg("Erro ao ler entrada. Encerrando", NULL)>>
    /\ pc' = "fim"
    /\ retorno' = 0
    /\ UNCHANGED <<programa, salas, node, op, lidos, motivo, listagem, caminho>>
    /\ UNCHANGED <<raizPistas, ht, buf, contador, resultado, linha>>
    /\ UNCHANGED <<varsHistPistas, varsHistHash>>

(***************************************************************************)
(* explorarSalas of part_000: no clues, and a leaf ends the exploration.   *)
(***************************************************************************)
\* lines 54-68
DespachoNivel1(n, c) ==
    IF c = 101 \/ c = 69
    THEN IF salas[n].esq # SalaNula
         THEN [node |-> salas[n].esq, retorna |-> FALSE, saida |-> <<>>]
         ELSE [node |-> n, retorna |-> FALSE,
               saida |-> <<Msg("Nao existe sala a esquerda!", NULL)>>]
    ELSE IF c = 100 \/ c = 68
    THEN IF salas[n].dir # SalaNula
         THEN [node |-> salas[n].dir, retorna |-> FALSE, saida |-> <<>>]
         ELSE [node |-> n, retorna |-> FALSE,
               saida |-> <<Msg("Nao existe sala a direita!", NULL)>>]
    ELSE IF c = 115 \/ c = 83
    THEN [node |-> n, retorna |-> TRUE,
          saida |-> <<Msg("Saindo da exploracao...", NULL)>>]
    ELSE [node |-> n, retorna |-> FALSE, saida |-> <<Msg("Opcao invalida!", NULL)>>]

\* explorarSalas returns and main returns 0
RetornarNivel1(m, msgs) ==
    /\ motivo' = m
    /\ pc' = "fim"
    /\ caminho' = caminho
    /\ saida' = msgs

\* the loop from its condition (line 36) with atual = n to the next read
ExplorarNivel1(n, msgs) ==
    /\ node' = n
    /\ IF n = SalaNula
       THEN RetornarNivel1("fim do laco", msgs)
       ELSE LET aqui == <<Msg("Voce esta na sala", salas[n].nome)>> IN
            IF Folha(n)
            THEN /\ motivo' = "beco sem saida"
                 /\ pc' = "fim"
                 /\ caminho' = IF pc = "inicio" \/ n # node
                               THEN Append(caminho, n) ELSE caminho
                 /\ saida' = msgs \o aqui \o
                     <<Msg("Nao ha mais caminhos a seguir. Exploracao encerrada!", NULL)>>
            ELSE /\ caminho' = IF pc = "inicio" \/ n # node
                               THEN Append(caminho, n) ELSE caminho
                 /\ saida' = msgs \o aqui \o <<Msg("Para onde deseja ir?", NULL)>>
                              \o Menu(n)
                 /\ pc' = "escolha"
                 /\ motivo' = motivo

IniciarNivel1 ==
    /\ programa = "part_000"
    /\ pc = "inicio"
    /\ ExplorarNivel1(1, <<Msg("=== Detective Quest - Exploracao da Mansao ===", NULL)>>)
    /\ UNCHANGED <<programa, salas, op, lidos, raizPistas, ht, listagem>>
    /\ UNCHANGED <<varsJuiz, varsHistPistas, varsHistHash>>

\* the rest of the loop body once opcao holds c
SeguirNivel1(c) ==
    /\ op' = c
    /\ LET d == DespachoNivel1(node, c) IN
       IF d.retorna
       THEN node' = node /\ RetornarNivel1("saiu", d.saida)
       ELSE ExplorarNivel1(d.node, d.saida)
    /\ UNCHANGED <<programa, salas, raizPistas, ht, listagem>>
    /\ UNCHANGED <<varsJuiz, varsHistPistas, varsHistHash>>

\* scanf(" %c", &opcao) stored c
EscolherNivel1(c) ==
    /\ programa = "part_000"
    /\ pc = "escolha"
    /\ lidos' = 1
    /\ SeguirNivel1(c)

\* scanf stored nothing; its result is not tested (line 52) and opcao, a new
\* object in each iteration, is read uninitialized: any value
FalhaLeituraNivel1 ==
    /\ programa = "part_000"
    /\ pc = "escolha"
    /\ lidos' = -1
    /\ \E c \in Escolhas : SeguirNivel1(c)

(***************************************************************************)
(* The two programs.                                                       *)
(***************************************************************************)
Init ==
    /\ programa \in {"algoritmos_avancados", "part_000"}
    /\ salas = IF programa = "part_000" THEN MontarMapaNivel1 ELSE MontarMapa
    /\ ht = IF programa = "part_000" THEN NULL ELSE PopularHash
    /\ raizPistas = NULL
    /\ node = 1
    /\ op = 0
    /\ lidos = 0
    /\ pc = "inicio"
    /\ motivo = ""
    /\ saida = <<>>
    /\ listagem = <<>>
    /\ buf = NULL
    /\ contador = -1
    /\ resultado = ""
    /\ inseridas = {}
    /\ antesPistas = NULL
    /\ ultimaPista = NULL
    /\ postas = {}
    /\ antesHt = NULL
    /\ ultimaChave = NULL
    /\ caminho = <<>>
    /\ linha = NULL
    /\ retorno = -1
    /\ outras = NULL

Next ==
    \/ Iniciar
    \/ \E c \in Escolhas : Escolher(c)
    \/ FalhaLeitura
    \/ \E lida \in Linhas : LerAcusacao(lida)
    \/ FalhaAcusacao
    \/ IniciarNivel1
    \/ \E c \in Escolhas : EscolherNivel1(c)
    \/ FalhaLeituraNivel1

Spec == Init /\ [][Next]_vars

(***************************************************************************)
(* Call-level specifications: the functions called in any order, as a      *)
(* test would call them, on the structures main builds.                    *)
(***************************************************************************)
Textos == <<PegadaMolhada, Go, FioDeCabelo, Fio, Vazia, BilheteRasgado,
            NotaDeDivida, MarcaDeLuva>>

\* how many texts of Textos the calls on the clue BST draw from
MaxTextos == 5

\* how many texts of Textos the calls on the hash table draw from
MaxChaves == 3

\* how many texts of Textos the calls before an accusation draw from
MaxJuiz == 2

TextosPistas == {Textos[i] : i \in 1..MaxTextos}

Chaves == {Textos[i] : i \in 1..MaxChaves}

TextosJuiz == {Textos[i] : i \in 1..MaxJuiz}

Suspeitos == {SrAvelar, SrAvelarMinusculo}

Acusados == {SrAvelar, SrAvelarMinusculo, SrDourado}

\* the sizes given to criarHash: one bucket, a few, and main's 101
TamanhosHash == {1, 3, 101}

InitChamadas ==
    /\ programa = "algoritmos_avancados"
    /\ salas = MontarMapa
    /\ raizPistas = NULL
    /\ node = 1
    /\ op = 0
    /\ lidos = 0
    /\ pc = "chamadas"
    /\ motivo = ""
    /\ saida = <<>>
    /\ listagem = <<>>
    /\ buf = NULL
    /\ contador = -1
    /\ resultado = ""
    /\ inseridas = {}
    /\ antesPistas = NULL
    /\ ultimaPista = NULL
    /\ postas = {}
    /\ antesHt = NULL
    /\ ultimaChave = NULL
    /\ caminho = <<>>
    /\ linha = NULL
    /\ retorno = -1

\* --- the clue BST
InitPistas == InitChamadas /\ ht = NULL /\ outras = NULL

ChamarInserirPista(t) ==
    /\ pc = "chamadas"
    /\ raizPistas' = inserirPista(raizPistas, t)
    /\ inseridas' = inseridas \cup {t}
    /\ antesPistas' = raizPistas
    /\ ultimaPista' = t
    /\ UNCHANGED <<varsJogo, varsJuiz, varsHistHash, pc, ht>>

NextPistas == \E t \in TextosPistas : ChamarInserirPista(t)

SpecPistas == InitPistas /\ [][NextPistas]_vars

\* --- the hash table
InitHash ==
    InitChamadas /\ outras = NULL /\ \E n \in TamanhosHash : ht = criarHash(n)

ChamarInserirNaHash(k, sus) ==
    /\ pc = "chamadas"
    /\ ht' = inserirNaHash(ht, k, sus)
    /\ postas' = {e \in postas : e.chave # k} \cup {[chave |-> k, suspeito |-> sus]}
    /\ antesHt' = ht
    /\ ultimaChave' = k
    /\ UNCHANGED <<varsJogo, varsJuiz, varsHistPistas, pc, raizPistas, outras>>

NextHash == \E k \in Chaves, sus \in Suspeitos : ChamarInserirNaHash(k, sus)

SpecHash == InitHash /\ [][NextHash]_vars

\* --- the accusation, on any clue BST and any table
InitJuiz ==
    InitChamadas /\ outras = NULL /\ \E n \in TamanhosHash : ht = criarHash(n)

ColetarPista(t) ==
    /\ pc = "chamadas"
    /\ raizPistas' = inserirPista(raizPistas, t)
    /\ UNCHANGED <<varsJogo, varsJuiz, varsHistPistas, varsHistHash, pc, ht>>

Associar(k, sus) ==
    /\ pc = "chamadas"
    /\ ht' = inserirNaHash(ht, k, sus)
    /\ UNCHANGED <<varsJogo, varsJuiz, varsHistPistas, varsHistHash, pc, raizPistas>>

\* lines 466-476 of main with buf = acusado
Julgar(acusado) ==
    /\ pc = "chamadas"
    /\ buf' = acusado
    /\ contador' = verificarSuspeitoFinal(raizPistas, ht, acusado)
    /\ resultado' = Resultado(contador')
    /\ pc' = "julgado"
    /\ UNCHANGED <<varsJogo, varsHistPistas, varsHistHash, raizPistas, ht>>
    /\ UNCHANGED <<linha, retorno>>

NextJuiz ==
    \/ \E t \in TextosJuiz : ColetarPista(t)
    \/ \E k \in TextosJuiz, sus \in Suspeitos : Associar(k, sus)
    \/ \E acusado \in Acusados : Julgar(acusado)

SpecJuiz == InitJuiz /\ [][NextJuiz]_vars

\* --- tables that differ in bucket count or in the function that places
\* --- the keys, given the same calls
\* a function other than hash_djb2: the length of the key
hash_comprimento(str) == ULong(strlen(str))

\* lines 199-216 of inserirNaHash, the bucket index h being given
inserirNaHashEm(tabela, h, pista, suspeito) ==
    LET cur == Achados(tabela.buckets[h], pista) IN
    IF cur # {}
    THEN [tabela EXCEPT !.buckets[h][Primeiro(cur)].suspeito =
                        strdup_local(suspeito)]
    ELSE [tabela EXCEPT !.buckets[h] = <<HashEntry(pista, suspeito)>> \o @]

\* lines 227-230 of encontrarSuspeito, the bucket index h being given
encontrarSuspeitoEm(tabela, h, pista) ==
    LET cadeia == tabela.buckets[h]
        cur == Achados(cadeia, pista)
    IN  IF cur # {} THEN cadeia[Primeiro(cur)].suspeito ELSE NULL

\* the bucket counts of the tables compared with main's table of 101
OutrosTamanhos == {1, 3}

InitTabelas ==
    /\ InitChamadas
    /\ ht = criarHash(101)
    /\ outras = [porTamanho |-> [n \in OutrosTamanhos |-> criarHash(n)],
                 porComprimento |-> criarHash(3)]

ChamarNasTabelas(k, sus) ==
    /\ pc = "chamadas"
    /\ ht' = inserirNaHash(ht, k, sus)
    /\ outras' =
          [porTamanho |->
               [n \in OutrosTamanhos |-> inserirNaHash(outras.porTamanho[n], k, sus)],
           porComprimento |->
               inserirNaHashEm(outras.porComprimento,
                               Mod(hash_comprimento(k), outras.porComprimento.size),
                               k, sus)]
    /\ postas' = {e \in postas : e.chave # k} \cup {[chave |-> k, suspeito |-> sus]}
    /\ antesHt' = ht
    /\ ultimaChave' = k
    /\ UNCHANGED <<varsJogo, varsJuiz, varsHistPistas, pc, raizPistas>>

NextTabelas == \E k \in Chaves, sus \in Suspeitos : ChamarNasTabelas(k, sus)

SpecTabelas == InitTabelas /\ [][NextTabelas]_vars

\* --- the count, on the clue BSTs built from the clues of the mansion in
\* --- any insertion order
PistasDaMansao == <<PegadaMolhada, MarcaDeLuva, ManchaDeTinta, FioDeCabelo,
                    CheiroDeQueimado, NotaDeDivida, BilheteRasgado,
                    ChaveEstranha, AnelRiscado>>

\* how many clues of PistasDaMansao the counted BSTs draw from
MaxContagem == 5

PistasContagem == {PistasDaMansao[i] : i \in 1..MaxContagem}

\* main's table, and a table of one bucket with other associations
TabelasContagem ==
    {PopularHash,
     inserirNaHash(inserirNaHash(inserirNaHash(criarHash(1),
         PegadaMolhada, SrDourado), FioDeCabelo, SrDourado),
         CheiroDeQueimado, SrAvelarMinusculo)}

InitContagem == InitChamadas /\ outras = NULL /\ ht \in TabelasContagem

NextContagem ==
    \/ \E t \in PistasContagem : ColetarPista(t)
    \/ \E acusado \in Acusados \cup {SraBeatriz} : Julgar(acusado)

SpecContagem == InitContagem /\ [][NextContagem]_vars

(***************************************************************************)
(* Properties of the clue BST.                                             *)
(***************************************************************************)
\* lexicographic order of two C strings by unsigned bytes: the terminating
\* NUL, the least byte, puts a proper prefix first
LexMenor(a, b) ==
    \E i \in 1..Len(a) :
        /\ i <= Len(b)
        /\ a[i] < b[i]
        /\ \A j \in 1..(i - 1) : a[j] = b[j]

\* the texts held by the nodes of a tree
RECURSIVE TextosDe(_)
TextosDe(raiz) ==
    IF raiz = NULL THEN {}
    ELSE TextosDe(raiz.esq) \cup {raiz.pista} \cup TextosDe(raiz.dir)

RECURSIVE NosDe(_)
NosDe(raiz) ==
    IF raiz = NULL THEN 0 ELSE NosDe(raiz.esq) + 1 + NosDe(raiz.dir)

RECURSIVE OrdenadaBST(_)
OrdenadaBST(raiz) ==
    \/ raiz = NULL
    \/ /\ \A t \in TextosDe(raiz.esq) : LexMenor(t, raiz.pista)
       /\ \A t \in TextosDe(raiz.dir) : LexMenor(raiz.pista, t)
       /\ OrdenadaBST(raiz.esq)
       /\ OrdenadaBST(raiz.dir)

\* C1: buscaPista finds a text right after inserirPista inserted it, and
\* still finds it after any later insertion: every text inserted so far,
\* the last one included, is found.
C1_PistaInseridaPermanece ==
    /\ \A t \in inseridas : buscaPista(raizPistas, t) = 1
    /\ ultimaPista # NULL => buscaPista(raizPistas, ultimaPista) = 1

\* an earlier text, now below the root, with later texts on both sides
C1_Witness ==
    /\ Cardinality(inseridas) >= 4
    /\ raizPistas.esq # NULL /\ raizPistas.dir # NULL
    /\ ultimaPista # raizPistas.pista
    /\ \E t \in inseridas \ {ultimaPista, raizPistas.pista} :
           buscaPista(raizPistas, t) = 1

\* C2: after every inserirPista, every text of a node's left subtree is
\* strictly less, and every text of its right subtree strictly greater,
\* than the node's text.
C2_OrdemBST == OrdenadaBST(raizPistas)

\* a tree of depth three with a left and a right descent
C2_Witness ==
    /\ raizPistas # NULL
    /\ raizPistas.esq # NULL /\ raizPistas.dir # NULL
    /\ raizPistas.esq.dir # NULL
    /\ ultimaPista = raizPistas.esq.dir.pista

\* C3: the listing of listarPistas is strictly ascending and holds exactly
\* the distinct texts inserted so far, each once.
C3_ListagemOrdenada ==
    LET l == listarPistas(raizPistas) IN
    /\ \A i \in 1..(Len(l) - 1) : LexMenor(l[i], l[i + 1])
    /\ {l[i] : i \in 1..Len(l)} = inseridas
    /\ Len(l) = Cardinality(inseridas)

\* four texts listed after an insertion order that is not the sorted one,
\* the last call a duplicate
C3_Witness ==
    /\ Len(listarPistas(raizPistas)) >= 4
    /\ raizPistas.pista # listarPistas(raizPistas)[1]
    /\ ultimaPista \in TextosDe(antesPistas)

\* C4: inserirPista of a text the tree already holds returns the tree as
\* it was, shape and contents, so the listing is the same.
C4_DuplicataNaoAltera ==
    (ultimaPista # NULL /\ ultimaPista \in TextosDe(antesPistas)) =>
        /\ raizPistas = antesPistas
        /\ listarPistas(raizPistas) = listarPistas(antesPistas)
        /\ NosDe(raizPistas) = NosDe(antesPistas)

\* a duplicate of a text held below the root
C4_Witness ==
    /\ ultimaPista # NULL
    /\ ultimaPista \in TextosDe(antesPistas)
    /\ ultimaPista # antesPistas.pista
    /\ NosDe(antesPistas) >= 3

(***************************************************************************)
(* Properties of the hash table.                                           *)
(***************************************************************************)
\* the suspect last put for a key, NULL when the key was never put
Posto(k) ==
    IF \E e \in postas : e.chave = k
    THEN (CHOOSE e \in postas : e.chave = k).suspeito
    ELSE NULL

\* where the entries with key k are: (bucket, position in its chain)
Posicoes(tabela, k) ==
    {bi \in (DOMAIN tabela.buckets) \X (1..Len(Textos)) :
        /\ bi[2] <= Len(tabela.buckets[bi[1]])
        /\ tabela.buckets[bi[1]][bi[2]].pista = k}

RECURSIVE EntradasAte(_, _)
EntradasAte(tabela, b) ==
    IF b < 0 THEN 0 ELSE Len(tabela.buckets[b]) + EntradasAte(tabela, b - 1)

\* how many entries the table holds
NEntradas(tabela) == EntradasAte(tabela, tabela.size - 1)

\* the keys of each chain, in chain order
ChavesPorBucket(tabela) ==
    [b \in DOMAIN tabela.buckets |->
        [i \in 1..Len(tabela.buckets[b]) |-> tabela.buckets[b][i].pista]]

\* C5: encontrarSuspeito returns, for every text, the suspect of the most
\* recent inserirNaHash for that text, and NULL for a text never put, also
\* when that text falls in the bucket of a stored one.
C5_UltimoPostoEncontrado ==
    pc = "chamadas" /\ ht # NULL =>
        \A i \in 1..Len(Textos) :
            encontrarSuspeito(ht, Textos[i]) = Posto(Textos[i])

\* 101 buckets: "pegada molhada" put again with another suspect, "go" of the
\* same bucket never put, a third key stored
C5_Witness ==
    /\ pc = "chamadas" /\ ht # NULL /\ antesHt # NULL
    /\ ht.size = 101
    /\ ultimaChave = PegadaMolhada
    /\ encontrarSuspeito(antesHt, PegadaMolhada) = SrAvelar
    /\ encontrarSuspeito(ht, PegadaMolhada) = SrAvelarMinusculo
    /\ Posto(Go) = NULL
    /\ Posto(FioDeCabelo) # NULL

\* C6: a text is the key of at most one entry of the table; inserirNaHash
\* of a key the table holds overwrites that entry's suspect and adds no
\* entry: the count and the keys of every chain stay as they were.
C6_UmaEntradaPorChave ==
    pc = "chamadas" /\ ht # NULL =>
        /\ \A i \in 1..Len(Textos) : Cardinality(Posicoes(ht, Textos[i])) <= 1
        /\ (antesHt # NULL /\ Posicoes(antesHt, ultimaChave) # {}) =>
              /\ NEntradas(ht) = NEntradas(antesHt)
              /\ ChavesPorBucket(ht) = ChavesPorBucket(antesHt)
              /\ \A bi \in Posicoes(ht, ultimaChave) :
                     ht.buckets[bi[1]][bi[2]].suspeito = Posto(ultimaChave)

\* one bucket: the key at the end of a chain of three is put again, with
\* another suspect
C6_Witness ==
    /\ pc = "chamadas" /\ ht # NULL /\ antesHt # NULL
    /\ ht.size = 1
    /\ Len(antesHt.buckets[0]) = 3
    /\ antesHt.buckets[0][3].pista = ultimaChave
    /\ antesHt.buckets[0][3].suspeito # ht.buckets[0][3].suspeito

(***************************************************************************)
(* Properties of the accusation.                                           *)
(***************************************************************************)
\* the table holds an entry (c, acusado), byte for byte
ApontaPara(tabela, c, acusado) ==
    \E b \in DOMAIN tabela.buckets :
        \E i \in 1..Len(tabela.buckets[b]) :
            /\ tabela.buckets[b][i].pista = c
            /\ tabela.buckets[b][i].suspeito = acusado

\* C7: verificarSuspeitoFinal returns the number of collected clues whose
\* entry in the table holds exactly the accused name (a clue with no entry
\* counts nothing), and main prints "sustained" iff that count is >= 2,
\* "insufficient" otherwise.
C7_ContagemEVeredito ==
    pc = "julgado" =>
        /\ contador = Cardinality({c \in TextosDe(raizPistas) :
                                       ApontaPara(ht, c, buf)})
        /\ resultado = "ACUSACAO SUSTENTADA" <=> contador >= 2
        /\ resultado = "ACUSACAO INSUFICIENTE" <=> contador < 2

\* two clues of one suspect, the second in the right subtree: sustained
C7_Witness ==
    /\ pc = "julgado"
    /\ contador = 2
    /\ resultado = "ACUSACAO SUSTENTADA"
    /\ raizPistas.dir # NULL
    /\ buf = SrAvelarMinusculo

(***************************************************************************)
(* Properties of the exploration.                                          *)
(***************************************************************************)
\* the room has neither a left nor a right child
SalaSemFilhos(n) == salas[n].esq = SalaNula /\ salas[n].dir = SalaNula

\* the last step printed m
Disse(m) == \E i \in 1..Len(saida) : saida[i].msg = m

\* c, read in room n, is no valid choice: an unknown token, or a direction
\* in which n has no child
Invalida(c, n) ==
    \/ c \notin {101, 69, 100, 68, 115, 83}
    \/ (c \in {101, 69} /\ salas[n].esq = SalaNula)
    \/ (c \in {100, 68} /\ salas[n].dir = SalaNula)

\* C8 as claimed: once the engine is in a room without children it is in
\* the terminal state dead-end-stopped, and asks for no choice there.
C8_FolhaTerminal ==
    (pc # "inicio" /\ SalaSemFilhos(node)) =>
        (pc # "escolha" /\ motivo = "beco sem saida")

\* C8 as amended: part_000 stops at a room without children, having said
\* that no path is left, and asks for no choice there; algoritmos_avancados
\* says that the room has no further paths and asks for a choice as in any
\* room: it never stops for a dead end, and from such a room a step either
\* asks again in the same room or leaves by the exit choice or a failed
\* read.
C8_FolhaPorPrograma ==
    /\ [](programa = "part_000" =>
            /\ (pc # "inicio" /\ SalaSemFilhos(node)) =>
                  /\ pc = "fim" /\ motivo = "beco sem saida"
                  /\ Disse("Nao ha mais caminhos a seguir. Exploracao encerrada!")
            /\ pc = "escolha" => ~SalaSemFilhos(node))
    /\ [](programa = "algoritmos_avancados" =>
            /\ motivo # "beco sem saida"
            /\ pc = "escolha" =>
                  /\ Disse("Escolha: ")
                  /\ SalaSemFilhos(node) <=>
                        Disse("Esta sala nao tem caminhos adicionais (no-folha)"))
    /\ [][(programa = "algoritmos_avancados" /\ pc = "escolha"
              /\ SalaSemFilhos(node)) =>
             /\ node' = node
             /\ \/ pc' = "escolha"
                \/ pc' = "acusacao" /\ motivo' \in {"saiu", "entrada invalida"}]_vars

\* algoritmos_avancados asks again in a room without children, after 'e'
\* was read there
C8_Witness ==
    /\ programa = "algoritmos_avancados"
    /\ pc = "escolha"
    /\ SalaSemFilhos(node)
    /\ lidos = 1 /\ op = 101
    /\ Disse("Nao existe caminho a esquerda")
    /\ Disse("Esta sala nao tem caminhos adicionais (no-folha)")

\* C9: a choice that is not valid in the current room (an unknown token,
\* 'e'/'E' without a left child, 'd'/'D' without a right child) leaves the
\* current room, the clue BST, the hash table and the room tree as they
\* were, and the engine asking for a choice in that room.
C9_EscolhaInvalidaNaoAltera ==
    [][(pc = "escolha" /\ lidos' = 1 /\ Invalida(op', node)) =>
          /\ node' = node
          /\ raizPistas' = raizPistas
          /\ ht' = ht
          /\ salas' = salas
          /\ pc' = "escolha"
          /\ motivo' = motivo]_vars

\* an unknown token was read in a room below the hall whose clue is held:
\* the clue step ran again and the engine asks again
C9_Witness ==
    /\ programa = "algoritmos_avancados"
    /\ pc = "escolha"
    /\ node # 1
    /\ lidos = 1 /\ Invalida(op, node)
    /\ Disse("Opcao invalida. Tente novamente")
    /\ Disse("Voce ja coletou esta pista antes")
    /\ NosDe(raizPistas) >= 2

\* C10 as claimed: in a room that has a child, exploration ends only by a
\* step that read 's' or 'S'.
C10_SoSairEncerra ==
    [][(pc = "escolha" /\ pc' # "escolha" /\ ~SalaSemFilhos(node')) =>
          (lidos' = 1 /\ op' \in {115, 83})]_vars

\* C10 as amended: in a room that has a child, exploration ends only by a
\* step that read 's' or 'S', or by a failed read: algoritmos_avancados then
\* reports invalid input and returns; part_000, which does not test what
\* scanf returned, returns when the uninitialized opcao holds 's' or 'S'.
C10_SairOuFalhaDeLeitura ==
    [][(pc = "escolha" /\ pc' # "escolha" /\ ~SalaSemFilhos(node')) =>
          /\ node' = node
          /\ \/ lidos' = 1 /\ op' \in {115, 83} /\ motivo' = "saiu"
             \/ /\ lidos' = -1
                /\ programa = "algoritmos_avancados" => motivo' = "entrada invalida"
                /\ programa = "part_000" => (op' \in {115, 83} /\ motivo' = "saiu")]_vars

\* algoritmos_avancados left exploration in a room below the hall that has
\* a child, because the read failed
C10_Witness ==
    /\ programa = "algoritmos_avancados"
    /\ pc = "acusacao"
    /\ motivo = "entrada invalida"
    /\ lidos = -1
    /\ node # 1
    /\ ~SalaSemFilhos(node)

\* C11: 's' or 'S' read at any prompt, in a room with or without children,
\* ends the exploration as "saiu" in the room where it was read, without
\* touching the clue BST; and once exploration has ended so, the current
\* room and the clue BST never change and no choice is asked for again.
C11_SairSempreValido ==
    /\ [][(pc = "escolha" /\ lidos' = 1 /\ op' \in {115, 83}) =>
             /\ motivo' = "saiu"
             /\ pc' \in {"acusacao", "fim"}
             /\ node' = node
             /\ raizPistas' = raizPistas
             /\ \E i \in 1..Len(saida') : saida'[i].msg = "Saindo da exploracao..."]_vars
    /\ [][motivo = "saiu" =>
             /\ motivo' = "saiu"
             /\ pc' # "escolha"
             /\ node' = node
             /\ raizPistas' = raizPistas]_vars

\* 'S' was read in a room without children, and the game ran to its end
\* with a count made
C11_Witness ==
    /\ programa = "algoritmos_avancados"
    /\ motivo = "saiu"
    /\ lidos = 1 /\ op = 83
    /\ SalaSemFilhos(node)
    /\ pc = "fim"
    /\ contador >= 0

(***************************************************************************)
(* The reference scenarios, in algoritmos_avancados.                       *)
(***************************************************************************)
\* the names of the rooms entered so far, in order
NomesDoCaminho == [i \in 1..Len(caminho) |-> salas[caminho[i]].nome]

\* exploration ended by the exit choice
Saiu == pc \in {"acusacao", "fim"} /\ motivo = "saiu"

\* C12: from "Hall de Entrada", left leads to "Sala de Estar" and left
\* again to "Biblioteca"; after the exit there, the clues listed are
\* "bilhete rasgado", "fio de cabelo", "pegada molhada" in this order, the
\* count for "Sr. Avelar" is 1 and the count for "Srta. Clara" is 1, and
\* the result printed for either is "insufficient".
C12_CenarioEsquerdaEsquerda ==
    /\ [][(programa = "algoritmos_avancados" /\ pc = "escolha" /\ lidos' = 1
              /\ op' \in {101, 69}) =>
             /\ NomesDoCaminho = <<HallDeEntrada>> =>
                   NomesDoCaminho' = <<HallDeEntrada, SalaDeEstar>>
             /\ NomesDoCaminho = <<HallDeEntrada, SalaDeEstar>> =>
                   NomesDoCaminho' = <<HallDeEntrada, SalaDeEstar, Biblioteca>>]_vars
    /\ []((programa = "algoritmos_avancados" /\ Saiu
              /\ NomesDoCaminho = <<HallDeEntrada, SalaDeEstar, Biblioteca>>) =>
             /\ listagem = <<BilheteRasgado, FioDeCabelo, PegadaMolhada>>
             /\ listarPistas(raizPistas) = listagem
             /\ verificarSuspeitoFinal(raizPistas, ht, SrAvelar) = 1
             /\ verificarSuspeitoFinal(raizPistas, ht, SrtaClara) = 1
             /\ Resultado(1) = "ACUSACAO INSUFICIENTE"
             /\ (pc = "fim" /\ buf \in {SrAvelar, SrtaClara}) =>
                   (contador = 1 /\ resultado = "ACUSACAO INSUFICIENTE"))

\* the scenario was played and "Srta. Clara" accused
C12_Witness ==
    /\ programa = "algoritmos_avancados"
    /\ Saiu /\ pc = "fim"
    /\ NomesDoCaminho = <<HallDeEntrada, SalaDeEstar, Biblioteca>>
    /\ buf = SrtaClara
    /\ contador = 1

\* 'd' or 'D' is read at a prompt of algoritmos_avancados
LeuDireita ==
    programa = "algoritmos_avancados" /\ pc = "escolha" /\ lidos' = 1
        /\ op' \in {100, 68}

\* exploration ended by the exit choice after hall, kitchen, cellar
SaiuDoPorao ==
    /\ programa = "algoritmos_avancados"
    /\ Saiu
    /\ NomesDoCaminho = <<HallDeEntrada, Cozinha, Porao>>

\* C13 as claimed: from the hall, right leads to the kitchen and right again
\* to the cellar; entering the cellar leaves the clue BST as it was; after
\* the exit the count for "Sr. Dourado" is 1.
C13_PoraoSemPista ==
    /\ [][LeuDireita =>
             /\ NomesDoCaminho = <<HallDeEntrada>> =>
                   NomesDoCaminho' = <<HallDeEntrada, Cozinha>>
             /\ NomesDoCaminho = <<HallDeEntrada, Cozinha>> =>
                   /\ NomesDoCaminho' = <<HallDeEntrada, Cozinha, Porao>>
                   /\ raizPistas' = raizPistas]_vars
    /\ [](SaiuDoPorao => verificarSuspeitoFinal(raizPistas, ht, SrDourado) = 1)

\* C13 as amended: from the hall, right leads to the kitchen and right again
\* to the cellar; entering the cellar collects "mancha de tinta", which the
\* table gives to "Sr. Avelar", so that three clues are held; after the exit
\* the count for "Sr. Dourado" is 1 (and the count for "Sr. Avelar" is 2).
C13_PoraoComManchaDeTinta ==
    /\ [][LeuDireita =>
             /\ NomesDoCaminho = <<HallDeEntrada>> =>
                   NomesDoCaminho' = <<HallDeEntrada, Cozinha>>
             /\ NomesDoCaminho = <<HallDeEntrada, Cozinha>> =>
                   /\ NomesDoCaminho' = <<HallDeEntrada, Cozinha, Porao>>
                   /\ buscaPista(raizPistas, ManchaDeTinta) = 0
                   /\ buscaPista(raizPistas', ManchaDeTinta) = 1
                   /\ TextosDe(raizPistas') = TextosDe(raizPistas) \cup {ManchaDeTinta}
                   /\ \E i \in 1..Len(saida') :
                          saida'[i] = Msg("Esta pista aponta para o(a) suspeito(a)", SrAvelar)]_vars
    /\ [](SaiuDoPorao =>
             /\ listagem = <<CheiroDeQueimado, ManchaDeTinta, PegadaMolhada>>
             /\ verificarSuspeitoFinal(raizPistas, ht, SrDourado) = 1
             /\ verificarSuspeitoFinal(raizPistas, ht, SrAvelar) = 2
             /\ (pc = "fim" /\ buf = SrDourado) =>
                   (contador = 1 /\ resultado = "ACUSACAO INSUFICIENTE"))

\* the scenario was played and "Sr. Dourado" accused
C13_Witness ==
    /\ SaiuDoPorao
    /\ pc = "fim"
    /\ buf = SrDourado
    /\ contador = 1
    /\ NosDe(raizPistas) = 3

(***************************************************************************)
(* Properties of the clue step and of the count.                           *)
(***************************************************************************)
\* the names an accusation is checked with: the four suspects of the table
\* and a name that differs from one of them in case only
Nomes == {SrAvelar, SraBeatriz, SrtaClara, SrDourado, SrAvelarMinusculo}

\* C14: at every prompt of the exploration and for every room entered so
\* far, running the clue step for the room again leaves the clue BST as it
\* is, reports the clue as already collected, stores no text twice and
\* leaves the count for every name as it was; and a step of the engine
\* that asks again in the same room leaves the BST as it was.
C14_ColetaIdempotente ==
    /\ []((programa = "algoritmos_avancados" /\ pc = "escolha") =>
            \A i \in 1..Len(caminho) :
              \A dois \in {Coleta(caminho[i], raizPistas)} :
                    /\ dois.raiz = raizPistas
                    /\ listarPistas(dois.raiz) = listarPistas(raizPistas)
                    /\ NosDe(dois.raiz) = Cardinality(TextosDe(dois.raiz))
                    /\ \A a \in Nomes :
                          verificarSuspeitoFinal(dois.raiz, ht, a)
                              = verificarSuspeitoFinal(raizPistas, ht, a)
                    /\ getPistaParaSala(salas[caminho[i]].nome) # NULL =>
                          dois.saida[2] = Msg("Voce ja coletou esta pista antes", NULL))
    /\ [][(programa = "algoritmos_avancados" /\ pc = "escolha"
              /\ pc' = "escolha" /\ node' = node) =>
             /\ raizPistas' = raizPistas
             /\ \E i \in 1..Len(saida') :
                    saida'[i].msg = "Voce ja coletou esta pista antes"]_vars

\* the engine asked again in a room at depth 2, three clues held
C14_Witness ==
    /\ programa = "algoritmos_avancados"
    /\ pc = "escolha"
    /\ Len(caminho) = 3
    /\ lidos = 1 /\ Invalida(op, node)
    /\ Disse("Voce ja coletou esta pista antes")
    /\ NosDe(raizPistas) = 3

\* the sequences that hold each element of S once
RECURSIVE Permutacoes(_)
Permutacoes(S) ==
    IF S = {} THEN {<<>>}
    ELSE UNION {{<<x>> \o p : p \in Permutacoes(S \ {x})} : x \in S}

\* how many texts of the sequence seq, visited in its order, are in M
RECURSIVE ContarEmOrdem(_, _, _)
ContarEmOrdem(seq, M, i) ==
    IF i > Len(seq) THEN 0
    ELSE (IF seq[i] \in M THEN 1 ELSE 0) + ContarEmOrdem(seq, M, i + 1)

\* the texts of a tree, each node after its subtrees
RECURSIVE PosOrdem(_)
PosOrdem(raiz) ==
    IF raiz = NULL THEN <<>>
    ELSE PosOrdem(raiz.esq) \o PosOrdem(raiz.dir) \o <<raiz.pista>>

\* C15: the count verificarSuspeitoFinal returns equals the count of the
\* matching clues made in any order of visit of the collected clues (every
\* permutation of them, the in-order and the post-order among them); hence
\* it depends only on the set of clues collected, and clue BSTs built from
\* the same clues in different insertion orders give the same count.
C15_ContagemSemOrdem ==
    pc = "julgado" =>
        \A M \in {{c \in TextosDe(raizPistas) : ApontaPara(ht, c, buf)}} :
            /\ \A p \in Permutacoes(TextosDe(raizPistas)) :
                   ContarEmOrdem(p, M, 1) = contador
            /\ ContarEmOrdem(listarPistas(raizPistas), M, 1) = contador
            /\ ContarEmOrdem(PosOrdem(raizPistas), M, 1) = contador
            /\ Len(PosOrdem(raizPistas)) = Cardinality(TextosDe(raizPistas))
            /\ contador = Cardinality(M)

\* a count of 3 over a BST of four clues whose root has both subtrees and
\* is not the text inserted into a sorted chain
C15_Witness ==
    /\ pc = "julgado"
    /\ NosDe(raizPistas) = 4
    /\ raizPistas.esq # NULL /\ raizPistas.dir # NULL
    /\ buf = SrAvelar
    /\ contador = 3

(***************************************************************************)
(* Properties of the final phase.                                          *)
(***************************************************************************)
\* the line holds nothing but white space and its end of line
SoEspacos(l) == \A i \in 1..Len(l) : l[i] = 0 \/ isspace(l[i])

\* C16: when the line read for the accusation holds only white space and
\* the end of line, main reports that no suspect was given and returns 0
\* with no count made and no result printed; any other line read is judged.
C16_AcusacaoVaziaSemJulgamento ==
    (programa = "algoritmos_avancados" /\ pc = "fim" /\ linha # NULL) =>
        IF SoEspacos(linha)
        THEN /\ buf = <<0>>
             /\ contador = -1
             /\ resultado = ""
             /\ retorno = 0
             /\ saida = <<Msg("Nenhum suspeito informado. Encerrando sem julgamento", NULL)>>
        ELSE /\ contador >= 0
             /\ resultado \in {"ACUSACAO SUSTENTADA", "ACUSACAO INSUFICIENTE"}
             /\ retorno = 0

\* a line of blanks, a tab and "\r\n" was read after three clues were
\* collected
C16_Witness ==
    /\ programa = "algoritmos_avancados"
    /\ pc = "fim"
    /\ linha = <<32, 32, 9, 13, 10, 0>>
    /\ buf = <<0>>
    /\ retorno = 0
    /\ NosDe(raizPistas) = 3

(***************************************************************************)
(* The room tree and the table during the exploration.                     *)
(***************************************************************************)
\* the rooms the links of room n lead to
Filhos(n) == {salas[n].esq, salas[n].dir} \ {SalaNula}

\* the rooms with a link to room n
Pais(n) == {p \in 1..Len(salas) : n \in Filhos(p)}

\* the rooms reached from the rooms of S in at most k moves
RECURSIVE Alcancadas(_, _)
Alcancadas(S, k) ==
    IF k = 0 THEN S
    ELSE Alcancadas(S \cup UNION {Filhos(n) : n \in S}, k - 1)

\* the rooms form a rooted binary tree: every link leads to a room, the
\* root has no parent, every other room has one parent and is its left or
\* its right child but not both, and every room is reached from the root
ArvoreDeSalas ==
    /\ Len(salas) >= 1
    /\ \A n \in 1..Len(salas) :
          /\ Filhos(n) \subseteq 1..Len(salas)
          /\ salas[n].esq # SalaNula => salas[n].esq # salas[n].dir
          /\ Cardinality(Pais(n)) = IF n = 1 THEN 0 ELSE 1
    /\ Alcancadas({1}, Len(salas)) = 1..Len(salas)

\* the pairs (clue, suspect) the table holds
EntradasDe(tabela) ==
    UNION {{[pista |-> tabela.buckets[b][i].pista,
             suspeito |-> tabela.buckets[b][i].suspeito] :
                i \in 1..Len(tabela.buckets[b])} : b \in DOMAIN tabela.buckets}

\* the nine associations main states
Associacoes ==
    {[pista |-> PegadaMolhada, suspeito |-> SrAvelar],
     [pista |-> FioDeCabelo, suspeito |-> SraBeatriz],
     [pista |-> MarcaDeLuva, suspeito |-> SrAvelar],
     [pista |-> BilheteRasgado, suspeito |-> SrtaClara],
     [pista |-> ChaveEstranha, suspeito |-> SraBeatriz],
     [pista |-> ManchaDeTinta, suspeito |-> SrAvelar],
     [pista |-> CheiroDeQueimado, suspeito |-> SrDourado],
     [pista |-> AnelRiscado, suspeito |-> SrtaClara],
     [pista |-> NotaDeDivida, suspeito |-> SrDourado]}

\* explorarSalas runs, or is about to
Explorando == pc \in {"inicio", "escolha"}

\* C17: no step of the exploration (entering a room, its clue step, a
\* move, an invalid choice, the exit, a failed read) changes the rooms'
\* names and links or the table; only the current room and the clue BST
\* change, apart from what was read and printed.  The rooms always form a
\* rooted binary tree in which every room has one path from the root, and
\* the table of algoritmos_avancados always holds the nine associations
\* of main.
C17_ExploracaoSoLeMapaETabela ==
    /\ [][Explorando =>
             /\ salas' = salas
             /\ ht' = ht
             /\ programa' = programa
             /\ <<buf, contador, resultado, linha, retorno>>'
                    = <<buf, contador, resultado, linha, retorno>>]_vars
    /\ [](/\ ArvoreDeSalas
          /\ \A n \in 1..Len(salas) : salas[n].nome # NULL
          /\ programa = "algoritmos_avancados" =>
                (ht.size = 101 /\ EntradasDe(ht) = Associacoes)
          /\ programa = "part_000" => ht = NULL)

\* a room at depth 3 was entered and the exit chosen there, four clues held
C17_Witness ==
    /\ programa = "algoritmos_avancados"
    /\ Len(caminho) = 4
    /\ NosDe(raizPistas) = 4
    /\ motivo = "saiu"
    /\ pc = "acusacao"
    /\ EntradasDe(ht) = Associacoes
    /\ salas = MontarMapa

(***************************************************************************)
(* Tables compared.                                                        *)
(***************************************************************************)
\* what the table that places keys by their length answers for k
AchadoPorComprimento(k) ==
    encontrarSuspeitoEm(outras.porComprimento,
                        Mod(hash_comprimento(k), outras.porComprimento.size), k)

\* C18: after the same sequence of inserirNaHash calls, the table of 101
\* buckets, the tables of 1 bucket (every key collides) and of 3 buckets,
\* and a table of 3 buckets that places keys by another function than
\* hash_djb2 give the same answer to every encontrarSuspeito query: that of
\* the key -> suspect map in which the last call for a key wins.
C18_TabelasEquivalentes ==
    pc = "chamadas" /\ outras # NULL =>
        \A i \in 1..Len(Textos) :
            \A r \in {encontrarSuspeito(ht, Textos[i])} :
                /\ \A n \in OutrosTamanhos :
                       encontrarSuspeito(outras.porTamanho[n], Textos[i]) = r
                /\ AchadoPorComprimento(Textos[i]) = r
                /\ r = Posto(Textos[i])

\* the tables differ: the three keys put are in one chain of the table of
\* one bucket and in two chains of the table of 101 buckets and of the
\* table by length; and the last key was put again with another suspect
C18_Witness ==
    /\ pc = "chamadas" /\ outras # NULL
    /\ Len(outras.porTamanho[1].buckets[0]) = 3
    /\ \E b \in 0..2 : Len(outras.porComprimento.buckets[b]) = 2
    /\ \E b \in 0..100 : Len(ht.buckets[b]) = 2
    /\ encontrarSuspeito(antesHt, ultimaChave) = SrAvelar
    /\ Posto(ultimaChave) = SrAvelarMinusculo

(***************************************************************************)
(* The course of the exploration.                                          *)
(***************************************************************************)
\* the number of links from the root to room n
RECURSIVE Profundidade(_)
Profundidade(n) ==
    IF Pais(n) = {} THEN 0
    ELSE 1 + Profundidade(CHOOSE p \in Pais(n) : TRUE)

\* the most rooms a run can enter: one more than the height of the tree
MaisFundo ==
    CHOOSE d \in 0..Len(salas) :
        /\ \E n \in 1..Len(salas) : Profundidade(n) = d
        /\ \A n \in 1..Len(salas) : Profundidade(n) <= d

\* C19: every step that changes the current room moves to a child of it,
\* one link deeper; no room is entered twice; a run of algoritmos_avancados
\* makes at most 3 moves (the height of its map); and a step after which
\* the engine asks again in the same room acted on an invalid choice.
C19_SoDesce ==
    /\ [][node' # node =>
             /\ pc = "escolha"
             /\ node' \in Filhos(node)
             /\ Profundidade(node') = Profundidade(node) + 1
             /\ caminho' = Append(caminho, node')]_vars
    /\ [][(pc = "escolha" /\ pc' = "escolha" /\ node' = node) =>
             (Invalida(op', node) /\ caminho' = caminho)]_vars
    /\ [](/\ \A i, j \in 1..Len(caminho) : caminho[i] = caminho[j] => i = j
          /\ pc # "inicio" => (caminho # <<>> /\ node = caminho[Len(caminho)])
          /\ Len(caminho) <= MaisFundo + 1
          /\ programa = "algoritmos_avancados" =>
                (MaisFundo = 3 /\ Len(caminho) - 1 <= 3))

\* three moves were made, and then invalid choices in the room reached
C19_Witness ==
    /\ programa = "algoritmos_avancados"
    /\ Len(caminho) = 4
    /\ Profundidade(node) = 3
    /\ pc = "escolha"
    /\ lidos = 1 /\ op = 120
    /\ Disse("Opcao invalida. Tente novamente")

\* the rooms entered are the path from the root to the current room
CaminhoDaRaiz ==
    /\ caminho # <<>>
    /\ caminho[1] = 1
    /\ \A i \in 1..(Len(caminho) - 1) : caminho[i + 1] \in Filhos(caminho[i])
    /\ caminho[Len(caminho)] = node

\* the clues getPistaParaSala gives for the rooms entered
PistasDoCaminho ==
    {getPistaParaSala(salas[caminho[i]].nome) : i \in 1..Len(caminho)} \ {NULL}

\* C20: at every prompt of explorarSalas of algoritmos_avancados, and from
\* then on, the texts of the clue BST are exactly the clues that
\* getPistaParaSala gives for the rooms on the path from the root to the
\* current room; their number is the number of rooms entered, at most 4.
C20_PistasDoCaminho ==
    (programa = "algoritmos_avancados" /\ pc \in {"escolha", "acusacao", "fim"}) =>
        /\ CaminhoDaRaiz
        /\ TextosDe(raizPistas) = PistasDoCaminho
        /\ NosDe(raizPistas) = Len(caminho)
        /\ Cardinality(TextosDe(raizPistas)) = Len(caminho)
        /\ Len(caminho) <= 4
        /\ pc # "escolha" => Len(listagem) = Len(caminho)

\* the engine asks in the study, reached by hall, kitchen and pantry, with
\* the four clues of these rooms
C20_Witness ==
    /\ programa = "algoritmos_avancados"
    /\ pc = "escolha"
    /\ NomesDoCaminho = <<HallDeEntrada, Cozinha, Despensa, Escritorio>>
    /\ TextosDe(raizPistas) =
           {PegadaMolhada, CheiroDeQueimado, ChaveEstranha, NotaDeDivida}

(***************************************************************************)
(* The counts a playthrough of algoritmos_avancados can reach.             *)
(***************************************************************************)
\* the clue BST the clue step builds on the way from the root to room n
RECURSIVE PistasAte(_)
PistasAte(n) ==
    IF Pais(n) = {} THEN Coleta(n, NULL).raiz
    ELSE Coleta(n, PistasAte(CHOOSE p \in Pais(n) : TRUE)).raiz

\* C21: in every playthrough of algoritmos_avancados the count for any name
\* is at most 2 and the count for "Sra. Beatriz" at most 1, at every prompt
\* of the exploration and in the count main makes, so that an accusation
\* of her is never sustained; and for each of "Sr. Avelar",
\* "Srta. Clara" and "Sr. Dourado" the map has a room on the way to which
\* the clues collected give the count 2.
C21_ContagensPossiveis ==
    programa = "algoritmos_avancados" =>
        /\ pc = "escolha" =>
              /\ \A a \in Nomes : verificarSuspeitoFinal(raizPistas, ht, a) <= 2
              /\ verificarSuspeitoFinal(raizPistas, ht, SraBeatriz) <= 1
        /\ contador <= 2
        /\ (pc = "fim" /\ buf = SraBeatriz) =>
              (contador <= 1 /\ resultado = "ACUSACAO INSUFICIENTE")
        /\ pc = "inicio" =>
              \A a \in {SrAvelar, SrtaClara, SrDourado} :
                  \E n \in 1..Len(salas) :
                      verificarSuspeitoFinal(PistasAte(n), ht, a) = 2

\* "Sr. Dourado" was accused after hall, kitchen, pantry and study, and the
\* accusation was sustained with the count 2
C21_Witness ==
    /\ programa = "algoritmos_avancados"
    /\ pc = "fim"
    /\ NomesDoCaminho = <<HallDeEntrada, Cozinha, Despensa, Escritorio>>
    /\ buf = SrDourado
    /\ contador = 2
    /\ resultado = "ACUSACAO SUSTENTADA"
    /\ verificarSuspeitoFinal(raizPistas, ht, SraBeatriz) = 1

=============================================================================
